---------------------------- MODULE Spec2Model ----------------------------
(***************************************************************************)
(* Model of substruct_generation.py: the hierarchical SMARTS library       *)
(* generator (canonicalizers, renderer, and the five-stage pipeline of     *)
(* generate_hierarchical_library).                                         *)
(*                                                                         *)
(* A Python str is a string; replace, split, "in" and the code-point       *)
(* ordering used by min() are computed character by character, the way     *)
(* Python computes them.  A Python tuple or list is a sequence; a dict is  *)
(* a sequence of [key, val] records in insertion order.                    *)
(***************************************************************************)
EXTENDS Integers, Sequences, FiniteSets, TLC

(***************************************************************************)
(* Bounds of the model.                                                    *)
(***************************************************************************)
\* APPLICABLE_SUBSTITUENTS is cut to its first NumSubst codes (of 10).
NumSubst == 2
\* Longest sequence handed to the canonicalizers on their own.
MaxLen == 5

(***************************************************************************)
(* Python str primitives.                                                  *)
(***************************************************************************)
\* ord(c) of every character the vocabulary uses.
CodePoint ==
  ("#" :> 35) @@ ("(" :> 40) @@ (")" :> 41) @@ ("*" :> 42) @@ ("+" :> 43) @@
  ("," :> 44) @@ ("0" :> 48) @@ ("1" :> 49) @@ ("2" :> 50) @@ ("3" :> 51) @@
  ("4" :> 52) @@ ("5" :> 53) @@ ("6" :> 54) @@ ("7" :> 55) @@ ("8" :> 56) @@
  ("9" :> 57) @@ (":" :> 58) @@ ("C" :> 67) @@ ("F" :> 70) @@ ("H" :> 72) @@
  ("N" :> 78) @@ ("O" :> 79) @@ ("S" :> 83) @@ ("[" :> 91) @@ ("]" :> 93) @@
  ("a" :> 97) @@ ("c" :> 99) @@ ("l" :> 108) @@ ("n" :> 110) @@ ("|" :> 124)

\* s[i-1]: the character at 1-based place i.
CharAt(s, i) == SubSeq(s, i, i)

RECURSIVE StrLessFrom(_, _, _)
StrLessFrom(a, b, i) ==
  IF i > Len(b) THEN FALSE
  ELSE IF i > Len(a) THEN TRUE
  ELSE IF CharAt(a, i) = CharAt(b, i) THEN StrLessFrom(a, b, i + 1)
  ELSE CodePoint[CharAt(a, i)] < CodePoint[CharAt(b, i)]

\* a < b on str: lexicographic by code point, a proper prefix first.
StrLess(a, b) == a # b /\ StrLessFrom(a, b, 1)

RECURSIVE TupleLessFrom(_, _, _)
TupleLessFrom(s, t, i) ==
  IF i > Len(t) THEN FALSE
  ELSE IF i > Len(s) THEN TRUE
  ELSE IF s[i] = t[i] THEN TupleLessFrom(s, t, i + 1)
  ELSE StrLess(s[i], t[i])

\* s < t on tuples of str: the first differing element decides.
TupleLess(s, t) == s # t /\ TupleLessFrom(s, t, 1)

\* s[i:i+len(sub)] == sub  (i is 1-based)
MatchAt(s, sub, i) ==
  /\ i + Len(sub) - 1 <= Len(s)
  /\ SubSeq(s, i, i + Len(sub) - 1) = sub

\* s.find(sub) + 1: the 1-based index of the first occurrence, 0 when absent.
StrFind(s, sub) ==
  IF \E i \in 1..Len(s) : MatchAt(s, sub, i)
  THEN CHOOSE i \in 1..Len(s) :
         MatchAt(s, sub, i) /\ \A j \in 1..(i - 1) : ~MatchAt(s, sub, j)
  ELSE 0

\* sub in s
StrContains(s, sub) == StrFind(s, sub) # 0

\* s.replace(old, new, 1)
StrReplaceFirst(s, old, new) ==
  LET i == StrFind(s, old)
  IN  IF i = 0 THEN s
      ELSE SubSeq(s, 1, i - 1) \o new \o SubSeq(s, i + Len(old), Len(s))

RECURSIVE StrReplace(_, _, _)
\* s.replace(old, new): every non-overlapping occurrence, left to right.
StrReplace(s, old, new) ==
  LET i == StrFind(s, old)
  IN  IF i = 0 THEN s
      ELSE SubSeq(s, 1, i - 1) \o new
           \o StrReplace(SubSeq(s, i + Len(old), Len(s)), old, new)

\* s.endswith(suffix)
StrEndsWith(s, suffix) ==
  Len(suffix) <= Len(s) /\ MatchAt(s, suffix, Len(s) - Len(suffix) + 1)

\* s.split(sep, 1): one part when sep is absent, else the text before and after
\* its first occurrence.
StrSplit1(s, sep) ==
  LET i == StrFind(s, sep)
  IN  IF i = 0 THEN <<s>>
      ELSE <<SubSeq(s, 1, i - 1), SubSeq(s, i + Len(sep), Len(s))>>

RECURSIVE StrJoin(_, _)
\* sep.join(parts)
StrJoin(sep, parts) ==
  IF parts = <<>> THEN ""
  ELSE IF Len(parts) = 1 THEN parts[1]
  ELSE parts[1] \o sep \o StrJoin(sep, Tail(parts))

\* reversed(seq)
Reversed(seq) == [i \in 1..Len(seq) |-> seq[Len(seq) + 1 - i]]

\* seq.count(x)
Count(seq, x) == Cardinality({i \in 1..Len(seq) : seq[i] = x})

(***************************************************************************)
(* Vocabulary.                                                             *)
(***************************************************************************)
L0_SMARTS ==
  "[a:1]1:a:a:a:a:1"

C_STAR   == "[#6](*)"
N_NOSTAR == "[#7+0]"
N_STAR   == "[#7+0](*)"
O_ATOM   == "[#8]"
S_ATOM   == "[#16]"
H_TOKEN  == "[#1]"

\* The dict, in insertion order.
SUBSTITUENT_CATALOG == <<
  [key |-> "C1", val |-> "[CH3,CH2]"],
  [key |-> "C2", val |-> "[CH,CH0]"],
  [key |-> "C3", val |-> "[c]"],
  [key |-> "N1", val |-> "[NH2,NH,N+]"],
  [key |-> "N2", val |-> "[N+0H0]"],
  [key |-> "N3", val |-> "[n+0]"],
  [key |-> "O1", val |-> "[O]"],
  [key |-> "S1", val |-> "[S]"],
  [key |-> "F",     val |-> "[F]"],
  [key |-> "Cl", val |-> "[Cl]"] >>

\* list(d.keys())
DictKeys(d) == [i \in 1..Len(d) |-> d[i].key]

\* list(d.values())
DictValues(d) == [i \in 1..Len(d) |-> d[i].val]

\* k in d
DictHas(d, k) == \E i \in 1..Len(d) : d[i].key = k

\* d[k], for a key that is present
DictGet(d, k) == d[CHOOSE i \in 1..Len(d) : d[i].key = k].val

\* d[k] = v: a present key keeps its place and takes the new value, an absent
\* key is appended.
DictSet(d, k, v) ==
  IF DictHas(d, k)
  THEN [i \in 1..Len(d) |-> IF d[i].key = k THEN [key |-> k, val |-> v] ELSE d[i]]
  ELSE Append(d, [key |-> k, val |-> v])

\* The codes the substituent stage draws from, cut to the model's bound.
APPLICABLE_SUBSTITUENTS ==
  SubSeq(DictKeys(SUBSTITUENT_CATALOG), 1, NumSubst)

(***************************************************************************)
(* Symmetry canonicalizers.                                                *)
(***************************************************************************)
RECURSIVE PyMinFrom(_, _, _)
PyMinFrom(reps, best, i) ==
  IF i > Len(reps) THEN best
  ELSE PyMinFrom(reps, IF TupleLess(reps[i], best) THEN reps[i] ELSE best, i + 1)

\* min(reps) of a non-empty list of tuples: the first smallest element.
\* min([]) raises ValueError; callers decide that case with reps = <<>>.
PyMin(reps) == PyMinFrom(reps, reps[1], 2)

canonical_reflect_tuple(seq) == PyMin(<<seq, Reversed(seq)>>)

\* seq[1:] + seq[:1]
RotateLeft(seq) == IF seq = <<>> THEN seq ELSE Tail(seq) \o <<Head(seq)>>

RECURSIVE NecklaceLoop(_, _, _, _)
\* The for-loop of canonical_necklace: k iterations left.
NecklaceLoop(reps, current_fwd, current_rev, k) ==
  IF k = 0 THEN reps
  ELSE NecklaceLoop(Append(Append(reps, current_fwd), current_rev),
                    RotateLeft(current_fwd), RotateLeft(current_rev), k - 1)

\* The list reps that canonical_necklace takes the minimum of.
NecklaceReps(seq) == NecklaceLoop(<<>>, seq, Reversed(seq), Len(seq))

canonical_necklace(seq) == PyMin(NecklaceReps(seq))

(***************************************************************************)
(* Renderer.                                                               *)
(***************************************************************************)
add_ring_label(atom_str) ==
  IF StrContains(atom_str, ":1") THEN atom_str
  ELSE IF StrContains(atom_str, "]")
       THEN StrReplaceFirst(atom_str, "]", ":1]")
       ELSE "[" \o atom_str \o ":1]"

\* atom, tag = (p_str.split('|', 1) + [''])[:2]
SplitAtomTag(p_str) ==
  LET two == SubSeq(StrSplit1(p_str, "|") \o <<"">>, 1, 2)
  IN  [atom |-> two[1], tag |-> two[2]]

\* The loop body of build_smarts before the ring label: current_part for p_str.
RenderPart(p_str) ==
  LET atom == SplitAtomTag(p_str).atom
      tag  == SplitAtomTag(p_str).tag
      stripped == IF tag # "" THEN StrReplace(atom, "(*)", "") ELSE atom
  IN  IF tag = "H" THEN stripped \o "(" \o H_TOKEN \o ")"
      ELSE IF tag # "" /\ tag # "*"
           THEN stripped \o "(" \o DictGet(SUBSTITUENT_CATALOG, tag) \o ")"
           ELSE stripped

\* A plausible slip: the label is put on every position, not only position 0.
BuildPartLabelAll(i, p_str) == add_ring_label(RenderPart(p_str))

\* parts[i] of build_smarts (i is the 0-based position).
BuildPart(i, p_str) ==
  IF i = 0 THEN add_ring_label(RenderPart(p_str)) ELSE RenderPart(p_str)

build_smarts(pattern) ==
  IF pattern = <<>> THEN ""
  ELSE IF pattern[1] = "a" THEN L0_SMARTS
  ELSE LET parts == [i \in 1..Len(pattern) |-> BuildPart(i - 1, pattern[i])]
       IN  parts[1] \o "1:" \o StrJoin(":", Tail(parts)) \o ":1"

(***************************************************************************)
(* itertools.                                                              *)
(***************************************************************************)
RECURSIVE Product(_, _)
\* list(product(pool, repeat=n)): the first coordinate varies slowest.
Product(pool, n) ==
  IF n = 0 THEN << <<>> >>
  ELSE LET rest == Product(pool, n - 1)
       IN  [k \in 1..(Len(pool) * Len(rest)) |->
              <<pool[((k - 1) \div Len(rest)) + 1]>> \o rest[((k - 1) % Len(rest)) + 1]]

RECURSIVE Combinations(_, _)
\* list(combinations(pool, k)): subsequences of length k in lexicographic
\* order of their positions.
Combinations(pool, k) ==
  IF k = 0 THEN << <<>> >>
  ELSE IF Len(pool) < k THEN <<>>
  ELSE LET with == Combinations(Tail(pool), k - 1)
       IN  [j \in 1..Len(with) |-> <<Head(pool)>> \o with[j]]
           \o Combinations(Tail(pool), k)

\* x in seq
InSeq(x, seq) == \E i \in 1..Len(seq) : seq[i] = x

\* {item.key: item.val for item in items}: a key stands where it was first
\* stored and holds the value stored under it last.
DictFromItems(items) ==
  LET n        == Len(items)
      firstIdx == SelectSeq([i \in 1..n |-> i],
                            LAMBDA i : \A j \in 1..(i - 1) : items[j].key # items[i].key)
      LastOf(k) == CHOOSE i \in 1..n :
                     /\ items[i].key = k
                     /\ \A j \in (i + 1)..n : items[j].key # k
  IN  [m \in 1..Len(firstIdx) |->
         [key |-> items[firstIdx[m]].key,
          val |-> items[LastOf(items[firstIdx[m]].key)].val]]

(***************************************************************************)
(* generate_hierarchical_library, stage by stage.                          *)
(***************************************************************************)
choices == <<C_STAR, N_NOSTAR>>

centers == <<C_STAR, N_STAR, O_ATOM, S_ATOM>>

\* The open-valence marker "(*)".
Marker == "(*)"

\* A plausible slip: the composition filter lets three nitrogens through.
SkeletonAdmissibleOffByOne(s) == Count(s, N_NOSTAR) <= 3

\* if s.count(N_NOSTAR) <= 2
SkeletonAdmissible(s) == Count(s, N_NOSTAR) <= 2

\* A plausible slip: the Skeleton, a path, is canonicalized as a ring.
SkeletonKeyNecklace(s) == canonical_necklace(s)

\* The key the skeleton dict comprehension stores s under.
SkeletonKey(s) == canonical_reflect_tuple(s)

\* layer1_skeletons
Layer1Skeletons ==
  LET cands == SelectSeq(Product(choices, 4), SkeletonAdmissible)
      items == [i \in 1..Len(cands) |-> [key |-> SkeletonKey(cands[i]), val |-> cands[i]]]
  IN  DictValues(DictFromItems(items))

\* layer2_cores for the given skeletons: skel outer, center inner.
Layer2Cores(skeletons) ==
  [k \in 1..(Len(skeletons) * Len(centers)) |->
     LET skel   == skeletons[((k - 1) \div Len(centers)) + 1]
         center == centers[((k - 1) % Len(centers)) + 1]
     IN  [skel |-> skel, core |-> <<center>> \o skel]]

\* A plausible slip: every bracketed atom counts as marker-bearing.
FreePosAnyAtom(core) == [j \in 1..Len(core) |-> j - 1]

\* free_pos: the 0-based positions of core whose token carries the marker.
FreePos(core) ==
  LET idx == SelectSeq([i \in 1..Len(core) |-> i],
                       LAMBDA i : StrContains(core[i], Marker))
  IN  [j \in 1..Len(idx) |-> idx[j] - 1]

\* The mask tuple for the chosen 0-based indices.
MaskOf(core, indices) ==
  [p \in 1..Len(core) |->
     IF InSeq(p - 1, indices) THEN core[p] \o "|*"
     ELSE IF StrContains(core[p], Marker) THEN core[p] \o "|H"
     ELSE core[p] \o "|"]

\* What one iteration of the mask loop appends for (skel, core).
MasksOfCore(skel, core) ==
  LET free_pos == FreePos(core)
      ForK(k) == IF Len(free_pos) < k THEN <<>>
                 ELSE LET combs == Combinations(free_pos, k)
                      IN  [j \in 1..Len(combs) |->
                             [skel |-> skel, core |-> core, mask |-> MaskOf(core, combs[j])]]
  IN  ForK(2) \o ForK(3)

\* The key the mask dict comprehension stores a triple under.
MaskKey(mask) == canonical_necklace(mask)

\* A plausible slip: a key that is already stored is left alone (first wins).
UniqueMasksFirstWins(masks_h) ==
  LET keys     == [i \in 1..Len(masks_h) |-> canonical_necklace(masks_h[i].mask)]
      firstIdx == SelectSeq([i \in 1..Len(masks_h) |-> i],
                            LAMBDA i : \A j \in 1..(i - 1) : keys[j] # keys[i])
  IN  [m \in 1..Len(firstIdx) |->
         [key |-> keys[firstIdx[m]], val |-> masks_h[firstIdx[m]]]]

\* unique_masks = {canonical_necklace(m): (s, c, m) for s, c, m in layer3_masks_h}
UniqueMasks(masks_h) ==
  DictFromItems([i \in 1..Len(masks_h) |->
                   [key |-> MaskKey(masks_h[i].mask), val |-> masks_h[i]]])

\* star_pos: the 0-based positions of mask tagged open-wildcard.
StarPos(mask) ==
  LET idx == SelectSeq([i \in 1..Len(mask) |-> i],
                       LAMBDA i : StrEndsWith(mask[i], "|*"))
  IN  [j \in 1..Len(idx) |-> idx[j] - 1]

\* final_pat for one tuple of labels.
FinalPatOf(mask, star_pos, labels) ==
  [p \in 1..Len(mask) |->
     IF InSeq(p - 1, star_pos)
     THEN LET i == CHOOSE j \in 1..Len(star_pos) : star_pos[j] = p - 1
          IN  StrSplit1(mask[p], "|")[1] \o "|" \o labels[i]
     ELSE mask[p]]

\* What one iteration of the substituent loop appends for (skel, core, mask).
FinalsOfMask(t) ==
  LET star_pos == StarPos(t.mask)
      all      == Product(APPLICABLE_SUBSTITUENTS, Len(star_pos))
  IN  [j \in 1..Len(all) |->
         [skel |-> t.skel, core |-> t.core, mask |-> t.mask,
          final |-> FinalPatOf(t.mask, star_pos, all[j])]]

\* A plausible slip: rotations only, the reflected images are forgotten.
FinalKeyRotationsOnly(final_pat) ==
  PyMin([k \in 1..Len(final_pat) |->
           [i \in 1..Len(final_pat) |-> final_pat[((i - 1 + k) % Len(final_pat)) + 1]]])

\* The key a final pattern is stored under in final_data.
FinalKey(final_pat) == canonical_necklace(final_pat)

\* A plausible slip: the bundle is memoized under the Core, which several
\* Masks share.
CacheKeyCore(skeleton_pat, core_pat, mask_pat) == core_pat

\* The key the ancestor bundle is memoized under.
CacheKey(skeleton_pat, core_pat, mask_pat) == mask_pat

\* The ancestor bundle as the table loop computes it on a cache miss.
ParentBundle(skeleton_pat, core_pat, mask_pat) ==
  [layer1_smarts |-> L0_SMARTS,
   layer2_smarts |-> build_smarts(<<"a">> \o skeleton_pat),
   layer3_smarts |-> build_smarts(core_pat),
   layer4_smarts |-> build_smarts(mask_pat)]

\* {**bundle, "layer5_smarts": build_smarts(final_pat)}
RowOf(bundle, final_pat) ==
  [layer1_smarts |-> bundle.layer1_smarts,
   layer2_smarts |-> bundle.layer2_smarts,
   layer3_smarts |-> bundle.layer3_smarts,
   layer4_smarts |-> bundle.layer4_smarts,
   layer5_smarts |-> build_smarts(final_pat)]

\* The columns of the table, in order.
Columns(row) ==
  <<row.layer1_smarts, row.layer2_smarts, row.layer3_smarts,
    row.layer4_smarts, row.layer5_smarts>>

RowLess(r1, r2) == TupleLess(Columns(r1), Columns(r2))

RECURSIVE SortRows(_)
\* df.sort_values(by=list(df.columns)): rows in ascending column order.
SortRows(rows) ==
  IF Len(rows) <= 1 THEN rows
  ELSE LET p == rows[(Len(rows) + 1) \div 2]
       IN  SortRows(SelectSeq(rows, LAMBDA r : RowLess(r, p)))
           \o SelectSeq(rows, LAMBDA r : r = p)
           \o SortRows(SelectSeq(rows, LAMBDA r : RowLess(p, r)))

(***************************************************************************)
(* State.                                                                  *)
(***************************************************************************)
VARIABLES
  pc,                   \* the stage generate_hierarchical_library is in
  layer1_skeletons,
  layer2_cores,
  core_idx,             \* iterations of the mask loop done
  layer3_masks_h,
  unique_masks,
  mask_idx,             \* iterations of the substituent loop done
  final_hierarchy,
  fh_idx,               \* iterations of the table loop done
  final_data,
  parent_smarts_cache,
  df,                   \* the returned table
  table_before,         \* history: final_data before the latest table-loop iteration
  row_iter,             \* history: the table-loop iteration that inserted each row
  cache_iter,           \* history: the table-loop iteration that computed each bundle
  arg,                  \* a direct call's argument
  result,               \* a direct call's return value
  raised                \* the exception a direct call ended with, "" when none

pipeVars == <<layer1_skeletons, layer2_cores, core_idx, layer3_masks_h,
              unique_masks, mask_idx, final_hierarchy, fh_idx, final_data,
              parent_smarts_cache, df, table_before, row_iter, cache_iter>>

callVars == <<arg, result, raised>>

vars == <<pc, pipeVars, callVars>>

PipeEmpty ==
  /\ layer1_skeletons = <<>>
  /\ layer2_cores = <<>>
  /\ core_idx = 0
  /\ layer3_masks_h = <<>>
  /\ unique_masks = <<>>
  /\ mask_idx = 0
  /\ final_hierarchy = <<>>
  /\ fh_idx = 0
  /\ final_data = <<>>
  /\ parent_smarts_cache = <<>>
  /\ df = <<>>
  /\ table_before = <<>>
  /\ row_iter = <<>>
  /\ cache_iter = <<>>

Init ==
  /\ pc = "layer1"
  /\ PipeEmpty
  /\ arg = <<>> /\ result = <<>> /\ raised = ""

(***************************************************************************)
(* The pipeline, one action per statement or loop iteration.               *)
(***************************************************************************)
Layer1 ==
  /\ pc = "layer1"
  /\ layer1_skeletons' = Layer1Skeletons
  /\ pc' = "layer2"
  /\ UNCHANGED <<layer2_cores, core_idx, layer3_masks_h, unique_masks, mask_idx,
                 final_hierarchy, fh_idx, final_data, parent_smarts_cache, df,
                 table_before, row_iter, cache_iter, callVars>>

Layer2 ==
  /\ pc = "layer2"
  /\ layer2_cores' = Layer2Cores(layer1_skeletons)
  /\ pc' = "layer3"
  /\ UNCHANGED <<layer1_skeletons, core_idx, layer3_masks_h, unique_masks, mask_idx,
                 final_hierarchy, fh_idx, final_data, parent_smarts_cache, df,
                 table_before, row_iter, cache_iter, callVars>>

Layer3Step ==
  /\ pc = "layer3"
  /\ core_idx < Len(layer2_cores)
  /\ LET sc == layer2_cores[core_idx + 1]
     IN  layer3_masks_h' = layer3_masks_h \o MasksOfCore(sc.skel, sc.core)
  /\ core_idx' = core_idx + 1
  /\ UNCHANGED <<pc, layer1_skeletons, layer2_cores, unique_masks, mask_idx,
                 final_hierarchy, fh_idx, final_data, parent_smarts_cache, df,
                 table_before, row_iter, cache_iter, callVars>>

Unique ==
  /\ pc = "layer3"
  /\ core_idx = Len(layer2_cores)
  /\ unique_masks' = UniqueMasks(layer3_masks_h)
  /\ pc' = "layer4"
  /\ UNCHANGED <<layer1_skeletons, layer2_cores, core_idx, layer3_masks_h, mask_idx,
                 final_hierarchy, fh_idx, final_data, parent_smarts_cache, df,
                 table_before, row_iter, cache_iter, callVars>>

Layer4Step ==
  /\ pc = "layer4"
  /\ mask_idx < Len(unique_masks)
  /\ final_hierarchy' = final_hierarchy \o FinalsOfMask(DictValues(unique_masks)[mask_idx + 1])
  /\ mask_idx' = mask_idx + 1
  /\ UNCHANGED <<pc, layer1_skeletons, layer2_cores, core_idx, layer3_masks_h,
                 unique_masks, fh_idx, final_data, parent_smarts_cache, df,
                 table_before, row_iter, cache_iter, callVars>>

StartTable ==
  /\ pc = "layer4"
  /\ mask_idx = Len(unique_masks)
  /\ pc' = "table"
  /\ UNCHANGED <<pipeVars, callVars>>

TableStep ==
  /\ pc = "table"
  /\ fh_idx < Len(final_hierarchy)
  /\ LET e               == final_hierarchy[fh_idx + 1]
         canon_final_pat == FinalKey(e.final)
         ckey            == CacheKey(e.skel, e.core, e.mask)
         miss            == ~DictHas(parent_smarts_cache, ckey)
         cache           == IF miss
                            THEN DictSet(parent_smarts_cache, ckey,
                                         ParentBundle(e.skel, e.core, e.mask))
                            ELSE parent_smarts_cache
     IN  IF ~DictHas(final_data, canon_final_pat)
         THEN /\ parent_smarts_cache' = cache
              /\ cache_iter' = IF miss THEN Append(cache_iter, fh_idx + 1) ELSE cache_iter
              /\ final_data' = DictSet(final_data, canon_final_pat,
                                       RowOf(DictGet(cache, ckey), e.final))
              /\ row_iter' = Append(row_iter, fh_idx + 1)
         ELSE UNCHANGED <<final_data, parent_smarts_cache, row_iter, cache_iter>>
  /\ table_before' = final_data
  /\ fh_idx' = fh_idx + 1
  /\ UNCHANGED <<pc, layer1_skeletons, layer2_cores, core_idx, layer3_masks_h,
                 unique_masks, mask_idx, final_hierarchy, df, callVars>>

Finish ==
  /\ pc = "table"
  /\ fh_idx = Len(final_hierarchy)
  /\ df' = SortRows(DictValues(final_data))
  /\ pc' = "done"
  /\ UNCHANGED <<layer1_skeletons, layer2_cores, core_idx, layer3_masks_h,
                 unique_masks, mask_idx, final_hierarchy, fh_idx, final_data,
                 parent_smarts_cache, table_before, row_iter, cache_iter, callVars>>

Next ==
  \/ Layer1 \/ Layer2 \/ Layer3Step \/ Unique
  \/ Layer4Step \/ StartTable \/ TableStep \/ Finish

Spec == Init /\ [][Next]_vars

(***************************************************************************)
(* The canonicalizers called on their own, on every sequence of at most    *)
(* MaxLen elements over a three-symbol alphabet of str.                    *)
(***************************************************************************)
CanonAlphabet == {"1", "2", "3"}

CanonInputs == UNION {[1..n -> CanonAlphabet] : n \in 0..MaxLen}

InitCanon ==
  /\ pc = "call"
  /\ PipeEmpty
  /\ arg \in CanonInputs /\ result = <<>> /\ raised = ""

CallReflect ==
  /\ pc = "call"
  /\ result' = canonical_reflect_tuple(arg)
  /\ raised' = ""
  /\ pc' = "reflect"
  /\ UNCHANGED <<pipeVars, arg>>

\* min(reps) raises ValueError when the loop appended nothing.
CallNecklace ==
  /\ pc = "call"
  /\ IF NecklaceReps(arg) = <<>>
     THEN raised' = "ValueError" /\ result' = result
     ELSE raised' = "" /\ result' = canonical_necklace(arg)
  /\ pc' = "necklace"
  /\ UNCHANGED <<pipeVars, arg>>

NextCanon == CallReflect \/ CallNecklace

SpecCanon == InitCanon /\ [][NextCanon]_vars

(***************************************************************************)
(* build_smarts called on its own, on every Core, Mask and FinalPattern    *)
(* that an admissible four-position candidate gives rise to.               *)
(***************************************************************************)
\* The 16 candidates with at most two nitrogen-like symbols, as a set.
AdmissibleCandidates ==
  {s \in [1..4 -> {C_STAR, N_NOSTAR}] : SkeletonAdmissible(s)}

SeqRange(seq) == {seq[i] : i \in 1..Len(seq)}

AllCoreItems == SeqRange(Layer2Cores(SelectSeq(Product(choices, 4), SkeletonAdmissible)))

AllMaskItems == UNION {SeqRange(MasksOfCore(sc.skel, sc.core)) : sc \in AllCoreItems}

AllFinalItems == UNION {SeqRange(FinalsOfMask(t)) : t \in AllMaskItems}

RenderInputs ==
  {sc.core : sc \in AllCoreItems} \cup {t.mask : t \in AllMaskItems}
  \cup {e.final : e \in AllFinalItems}

InitRender ==
  /\ pc = "call"
  /\ PipeEmpty
  /\ arg \in RenderInputs /\ result = "" /\ raised = ""

CallBuild ==
  /\ pc = "call"
  /\ result' = build_smarts(arg)
  /\ pc' = "built"
  /\ UNCHANGED <<pipeVars, arg, raised>>

NextRender == CallBuild

SpecRender == InitRender /\ [][NextRender]_vars
(***************************************************************************)
(* Properties.                                                             *)
(***************************************************************************)
\* The number of places where sub occurs in s.
Occurrences(s, sub) == Cardinality({i \in 1..Len(s) : MatchAt(s, sub, i)})

\* The number of Rows in the table.
NumRows == Len(final_data)

\* The (skel, core, mask, final) tuple of the loop iteration that inserted Row i.
RowOrigin(i) == final_hierarchy[row_iter[i]]

\* The tuple of the loop iteration that computed cache entry j.
CacheOrigin(j) == final_hierarchy[cache_iter[j]]

\* The layer-2 rendering of a Skeleton as specified: the generic-aromatic
\* anchor, the ring-open marker, the tokens joined by ":", the ring-close marker.
Layer2Rendering(skel) ==
  "[a:1]" \o "1:" \o StrJoin(":", skel) \o ":1"

\* C1: every Row's layer2_smarts is the layer-2 rendering of the Row's
\* Skeleton: "[a:1]" at position 0, then "1:", the four Skeleton tokens joined
\* by ":", then ":1".
C1_Layer2IsSkeletonRendering ==
  \A i \in 1..NumRows :
    final_data[i].val.layer2_smarts = Layer2Rendering(RowOrigin(i).skel)

\* The atom text of a tagged position (the text before its "|").
TokenOf(p_str) == StrSplit1(p_str, "|")[1]

\* C7: a position tagged open-wildcard renders as its Token text unchanged
\* (the marker "(*)" is kept), so every layer4_smarts holds one "(*)" per open
\* position of the Row's Mask.
C7_OpenWildcardKeepsMarker ==
  \A i \in 1..NumRows :
    LET mask == RowOrigin(i).mask
        open == StarPos(mask)
    IN  /\ \A j \in 1..Len(open) :
             RenderPart(mask[open[j] + 1]) = TokenOf(mask[open[j] + 1])
        /\ Occurrences(final_data[i].val.layer4_smarts, Marker) = Len(open)

\* seq rotated left by k places.
Rotation(seq, k) ==
  [i \in 1..Len(seq) |-> seq[((i - 1 + k) % Len(seq)) + 1]]

\* The 2n dihedral images of a sequence of length n.
DihedralImages(seq) ==
  {Rotation(seq, k) : k \in 0..(Len(seq) - 1)}
  \cup {Rotation(Reversed(seq), k) : k \in 0..(Len(seq) - 1)}

\* The two reflection images of a sequence.
ReflectionImages(seq) == {seq, Reversed(seq)}

\* C5: canonical_necklace returns, for every sequence, a key that is a member
\* of the sequence's dihedral orbit, the same for all 2n dihedral images, and
\* left unchanged by a second application; canonical_reflect_tuple does so for
\* the sequence and its reverse.
C5_GroupInvariance ==
  /\ pc = "necklace" =>
       /\ raised = ""
       /\ result \in DihedralImages(arg)
       /\ \A t \in DihedralImages(arg) : canonical_necklace(t) = result
       /\ canonical_necklace(result) = result
  /\ pc = "reflect" =>
       /\ raised = ""
       /\ result \in ReflectionImages(arg)
       /\ \A t \in ReflectionImages(arg) : canonical_reflect_tuple(t) = result
       /\ canonical_reflect_tuple(result) = result

\* The same statement for the sequences on which canonical_necklace returns:
\* it holds of every non-empty sequence, and the empty one is the only input
\* that raises.
GroupInvarianceNonEmpty ==
  /\ pc = "necklace" => (raised = "ValueError" <=> arg = <<>>)
  /\ (arg # <<>> \/ pc = "reflect") => C5_GroupInvariance
\* atom_str with the ring-closure label ":1" put right before its first "]".
Labelled(atom_str) ==
  LET i == StrFind(atom_str, "]")
  IN  SubSeq(atom_str, 1, i - 1) \o ":1" \o SubSeq(atom_str, i, Len(atom_str))

ExampleCore == <<C_STAR, C_STAR, N_NOSTAR, C_STAR, N_NOSTAR>>

\* "[#6:1](*)1:[#6](*):[#7+0]:[#6](*):[#7+0]:1"
ExampleCoreSmarts ==
  "[#6:1](*)1:[#6](*):[#7+0]:[#6](*):[#7+0]:1"

\* C2: for every length-5 Core, Mask and FinalPattern, build_smarts returns
\* rendered(position 0) with the label ":1" injected, then "1:", then the other
\* rendered positions (none of them labelled) joined by ":", then ":1"; the
\* Core ([#6](*), [#6](*), [#7+0], [#6](*), [#7+0]) renders to
\* "[#6:1](*)1:[#6](*):[#7+0]:[#6](*):[#7+0]:1".
C2_RingLabelOnPositionZeroOnly ==
  pc = "built" =>
    /\ Len(arg) = 5
    /\ StrContains(RenderPart(arg[1]), "]")
    /\ result = Labelled(RenderPart(arg[1])) \o "1:"
                \o StrJoin(":", [i \in 1..4 |-> RenderPart(arg[i + 1])])
                \o ":1"
    /\ Occurrences(result, ":1]") = 1
    /\ (arg = ExampleCore => result = ExampleCoreSmarts)

\* The example Core has been rendered to the example string.
C2_Witness ==
  /\ pc = "built"
  /\ arg = ExampleCore
  /\ result = ExampleCoreSmarts
\* The canonical key of the FinalPattern row i was generated from.
OrbitKey(i) == canonical_necklace(RowOrigin(i).final)

\* The newest Row's key is the canonical key of its FinalPattern and differs
\* from the key of every older Row.
NewestRowFresh ==
  NumRows > 0 =>
    /\ final_data[NumRows].key = OrbitKey(NumRows)
    /\ \A i \in 1..(NumRows - 1) : final_data[i].key # final_data[NumRows].key

\* No two Rows of the table lie in the same dihedral orbit.
OrbitsPairwiseDistinct ==
  Cardinality({OrbitKey(i) : i \in 1..NumRows}) = NumRows

\* The table-loop iteration just done left every Row that was there as it
\* was; it added no Row when its FinalPattern's key was already present, and
\* otherwise added one Row, for that FinalPattern.
LastIterationKeptRows ==
  LET e == final_hierarchy[fh_idx]
      n == Len(table_before)
  IN  /\ NumRows >= n
      /\ SubSeq(final_data, 1, n) = table_before
      /\ IF DictHas(table_before, canonical_necklace(e.final))
         THEN final_data = table_before
         ELSE NumRows = n + 1 /\ row_iter[NumRows] = fh_idx

\* C3: at every point of the table loop and in the final table no two Rows
\* have FinalPatterns in the same dihedral orbit, and a FinalPattern whose
\* canonical key is already present neither replaces nor adds a Row.
C3_NoDuplicateOrbits ==
  /\ NewestRowFresh
  /\ fh_idx > 0 => LastIterationKeptRows
  /\ pc = "done" => OrbitsPairwiseDistinct

\* The table loop has discarded a sighting while holding Rows.
C3_Witness ==
  /\ pc = "table"
  /\ NumRows >= 2
  /\ fh_idx > NumRows

\* Row i carries the layer 1-4 strings rendered from its own triple.
RowAncestorsOwn(i) ==
  LET o == RowOrigin(i)
      r == final_data[i].val
  IN  /\ r.layer1_smarts = L0_SMARTS
      /\ r.layer2_smarts = build_smarts(<<"a">> \o o.skel)
      /\ r.layer3_smarts = build_smarts(o.core)
      /\ r.layer4_smarts = build_smarts(o.mask)
      /\ \E j \in 1..Len(parent_smarts_cache) :
           /\ parent_smarts_cache[j].key = o.mask
           /\ CacheOrigin(j).skel = o.skel
           /\ CacheOrigin(j).core = o.core
           /\ CacheOrigin(j).mask = o.mask

\* Cache entry j holds the bundle of the triple it was computed for, and that
\* triple was not computed for before.
CacheEntryOwn(j) ==
  /\ parent_smarts_cache[j].val =
       ParentBundle(CacheOrigin(j).skel, CacheOrigin(j).core, CacheOrigin(j).mask)
  /\ \A k \in 1..(j - 1) :
       <<CacheOrigin(k).skel, CacheOrigin(k).core, CacheOrigin(k).mask>>
         # <<CacheOrigin(j).skel, CacheOrigin(j).core, CacheOrigin(j).mask>>

\* C4: every Row's layer1..layer4 strings equal the strings rendered without
\* a cache from the (Skeleton, Core, Mask) triple its FinalPattern came from;
\* the bundle found under the Row's Mask was computed for that very triple,
\* and a bundle is computed at most once per triple.
C4_AncestorConsistency ==
  /\ Len(cache_iter) = Len(parent_smarts_cache)
  /\ Len(row_iter) = NumRows
  /\ NumRows > 0 => RowAncestorsOwn(NumRows)
  /\ Len(cache_iter) > 0 => CacheEntryOwn(Len(cache_iter))
  /\ pc = "done" =>
       /\ \A i \in 1..NumRows : RowAncestorsOwn(i)
       /\ \A j \in 1..Len(cache_iter) : CacheEntryOwn(j)

\* Some Row took its bundle from the cache instead of computing it.
C4_Witness ==
  /\ pc = "table"
  /\ Len(parent_smarts_cache) >= 2
  /\ NumRows > Len(parent_smarts_cache)

\* C6: layer1_skeletons holds exactly one member of every reflection orbit of
\* the four-position candidates with at most two [#7+0], and nothing else.
C6_SkeletonsOnePerOrbit ==
  pc # "layer1" =>
    /\ \A i \in 1..Len(layer1_skeletons) :
         /\ layer1_skeletons[i] \in [1..4 -> {C_STAR, N_NOSTAR}]
         /\ Count(layer1_skeletons[i], N_NOSTAR) <= 2
         /\ \A j \in 1..Len(layer1_skeletons) :
              i # j => layer1_skeletons[j] \notin ReflectionImages(layer1_skeletons[i])
    /\ \A c \in [1..4 -> {C_STAR, N_NOSTAR}] :
         Count(c, N_NOSTAR) <= 2 =>
           \E i \in 1..Len(layer1_skeletons) : layer1_skeletons[i] \in ReflectionImages(c)

\* The Skeleton stage has run and kept a Skeleton that stands for two candidates.
C6_Witness ==
  /\ pc = "layer2"
  /\ \E i \in 1..Len(layer1_skeletons) :
       Reversed(layer1_skeletons[i]) # layer1_skeletons[i]
\* The 1-based places in layer3_masks_h of the triples whose Mask has key k.
SightingsOf(k) ==
  {i \in 1..Len(layer3_masks_h) : canonical_necklace(layer3_masks_h[i].mask) = k}

MinOf(S) == CHOOSE x \in S : \A y \in S : x <= y

MaxOf(S) == CHOOSE x \in S : \A y \in S : y <= x

\* unique_masks holds exactly one triple for every key that was generated.
OneTriplePerKey ==
  /\ \A i \in 1..Len(layer3_masks_h) :
       Cardinality({u \in 1..Len(unique_masks) :
                      unique_masks[u].key = canonical_necklace(layer3_masks_h[i].mask)}) = 1
  /\ \A u \in 1..Len(unique_masks) : SightingsOf(unique_masks[u].key) # {}

\* The state right after the Mask deduplication.
MasksJustDeduplicated == pc = "layer4" /\ mask_idx = 0

\* C8 as stated: the triple kept for a key is the first one encountered in
\* generation order among the triples whose Mask has that key.
C8_KeepsFirstEncountered ==
  MasksJustDeduplicated =>
    /\ OneTriplePerKey
    /\ \A u \in 1..Len(unique_masks) :
         unique_masks[u].val = layer3_masks_h[MinOf(SightingsOf(unique_masks[u].key))]

\* C8 as amended: the triple kept for a key is the last one encountered in
\* generation order among the triples whose Mask has that key.
C8_KeepsLastEncountered ==
  MasksJustDeduplicated =>
    /\ OneTriplePerKey
    /\ \A u \in 1..Len(unique_masks) :
         unique_masks[u].val = layer3_masks_h[MaxOf(SightingsOf(unique_masks[u].key))]

\* The deduplication has run and some key was sighted more than once, with
\* different triples first and last.
C8_Witness ==
  /\ MasksJustDeduplicated
  /\ \E u \in 1..Len(unique_masks) :
       LET seen == SightingsOf(unique_masks[u].key)
       IN  layer3_masks_h[MinOf(seen)] # layer3_masks_h[MaxOf(seen)]

\* The 0-based Skeleton slots of core (positions 1..4) holding token.
SlotsHolding(core, token) == {p \in 1..(Len(core) - 1) : core[p + 1] = token}

\* The tag of a tagged position (the text after its "|").
TagOf(p_str) == StrSplit1(p_str, "|")[2]

\* The triple's Mask tags a size-2 or size-3 subset of the marker-bearing
\* positions open-wildcard, the other marker-bearing positions hydrogen-cap,
\* and every other position unset.
MaskWellTagged(t) ==
  LET free == SeqRange(FreePos(t.core))
      open == {p \in 0..(Len(t.mask) - 1) : TagOf(t.mask[p + 1]) = "*"}
  IN  /\ Len(t.mask) = Len(t.core)
      /\ open \subseteq free
      /\ Cardinality(open) \in {2, 3}
      /\ \A p \in 0..(Len(t.core) - 1) :
           t.mask[p + 1] = t.core[p + 1] \o
             (IF p \in open THEN "|*" ELSE IF p \in free THEN "|H" ELSE "|")

\* C9 as stated: free_pos of every Core is position 0 together with exactly
\* the carbon-like Skeleton slots, never a nitrogen-like slot, and every
\* generated Mask is tagged accordingly.
C9_FreePosCenterAndCarbons ==
  pc = "layer3" =>
    /\ \A c \in 1..Len(layer2_cores) :
         LET core == layer2_cores[c].core
         IN  /\ SeqRange(FreePos(core)) = {0} \cup SlotsHolding(core, C_STAR)
             /\ SeqRange(FreePos(core)) \cap SlotsHolding(core, N_NOSTAR) = {}
    /\ \A m \in 1..Len(layer3_masks_h) : MaskWellTagged(layer3_masks_h[m])

\* C9 as amended: free_pos of every Core is exactly the carbon-like Skeleton
\* slots, together with position 0 when the center token carries the marker
\* (the centers [#6](*) and [#7+0](*), not [#8] and [#16]); it never holds a
\* nitrogen-like slot, and every generated Mask is tagged accordingly.
C9_FreePosMarkedCenterAndCarbons ==
  pc = "layer3" =>
    /\ \A c \in 1..Len(layer2_cores) :
         LET core == layer2_cores[c].core
         IN  /\ SeqRange(FreePos(core)) =
                  (IF core[1] \in {C_STAR, N_STAR} THEN {0} ELSE {})
                  \cup SlotsHolding(core, C_STAR)
             /\ SeqRange(FreePos(core)) \cap SlotsHolding(core, N_NOSTAR) = {}
    /\ \A m \in 1..Len(layer3_masks_h) : MaskWellTagged(layer3_masks_h[m])

\* Masks have been generated for a Core whose center carries no marker and
\* for one whose Skeleton has a nitrogen-like slot.
C9_Witness ==
  /\ pc = "layer3"
  /\ \E m \in 1..Len(layer3_masks_h) : layer3_masks_h[m].core[1] = O_ATOM
  /\ \E m \in 1..Len(layer3_masks_h) :
       /\ layer3_masks_h[m].core[1] = C_STAR
       /\ SlotsHolding(layer3_masks_h[m].core, N_NOSTAR) # {}

\* The canonical keys of every Mask of every admissible candidate and center,
\* with no deduplication in between.
BruteForceMaskKeys == {canonical_necklace(t.mask) : t \in AllMaskItems}

\* The canonical keys of every FinalPattern of every such Mask.
BruteForceFinalKeys == {canonical_necklace(e.final) : e \in AllFinalItems}

\* C10: the canonical keys of the final table are exactly the keys obtained by
\* brute force over all admissible candidates, centers, Masks and catalog
\* assignments; the Skeleton and Mask deduplication drops no orbit of Masks
\* on the way.
C10_StagedDedupLosesNoOrbit ==
  /\ pc \in {"layer4", "table", "done"} =>
       SeqRange(DictKeys(unique_masks)) = BruteForceMaskKeys
  /\ pc = "done" => SeqRange(DictKeys(final_data)) = BruteForceFinalKeys

\* The run is complete and every stage has dropped duplicates.
C10_Witness ==
  /\ pc = "done"
  /\ Len(layer1_skeletons) < Cardinality(AdmissibleCandidates)
  /\ Len(unique_masks) < Len(layer3_masks_h)
  /\ NumRows < Len(final_hierarchy)
=============================================================================
